---- MODULE Spec2Model ----
(***************************************************************************)
(* EngineeringNotation.py: the exponent selector                           *)
(* (_get_engineering_exponent), the exponent string (_get_exp_str), the    *)
(* two formatters (si_form, engineering_form) and their aliases (sif,      *)
(* engf).                                                                  *)
(*                                                                         *)
(* Python values are records with a type field.  A finite number is kept   *)
(* as an exact decimal, sign * coef * 10^pow, so that log10, the division  *)
(* by 10 ** exponent and round() are computed without 10^pow ever being    *)
(* built.  Strings are sequences of one-character strings; the message of  *)
(* an exception is the sequence of its blank-separated words.              *)
(***************************************************************************)
EXTENDS Integers, Sequences, FiniteSets, TLC

VARIABLES call, number, unit, round_to_decimal_places, float_tie, exponent, mantissa, result

vars == <<call, number, unit, round_to_decimal_places, float_tie, exponent, mantissa, result>>

----------------------------------------------------------------------------
(* Bounds of the inputs tried. *)

\* finite floats coef * 10^pow are tried for pow in -MaxPow .. MaxPow
MaxPow == 63
\* integer precisions -1 .. MaxPrec are tried
MaxPrec == 2

----------------------------------------------------------------------------
(* Python values *)

NoneV == [type |-> "NoneType"]
Str(chars) == [type |-> "str", chars |-> chars]
PyInt(n) == [type |-> "int", val |-> n]
PyFloat(tenths) == [type |-> "float", tenths |-> tenths]
\* a finite int or float, sign * coef * 10^pow
Num(type, sign, coef, pow) ==
    [type |-> type, kind |-> "finite", sign |-> sign, coef |-> coef, pow |-> pow]
\* float('nan'), float('inf'), float('-inf')
NonFinite(kind, sign) == [type |-> "float", kind |-> kind, sign |-> sign]
\* an argument the caller left out
Omitted == [type |-> "omitted"]

isinstance(value, types) == value.type \in types

Return(value) == [kind |-> "return", value |-> value]
Raise(exc, msg) == [kind |-> "raise", exc |-> exc, msg |-> msg]

\* a local of a call: not yet assigned, or assigned v
Unbound == [bound |-> FALSE]
Bound(v) == [bound |-> TRUE, val |-> v]

----------------------------------------------------------------------------
(* Arithmetic and text helpers *)

RECURSIVE Pow10(_)
Pow10(n) == IF n = 0 THEN 1 ELSE 10 * Pow10(n - 1)

RECURSIVE NumDigits(_)
NumDigits(n) == IF n < 10 THEN 1 ELSE 1 + NumDigits(n \div 10)

DigitChars == <<"0", "1", "2", "3", "4", "5", "6", "7", "8", "9">>

RECURSIVE NatStr(_)
NatStr(n) ==
    IF n < 10 THEN <<DigitChars[n + 1]>>
    ELSE NatStr(n \div 10) \o <<DigitChars[(n % 10) + 1]>>

\* f'{exponent}' of an int
IntStr(n) == IF n < 0 THEN <<"-">> \o NatStr(-n) ELSE NatStr(n)

RECURSIVE Zeros(_)
Zeros(n) == IF n <= 0 THEN <<>> ELSE <<"0">> \o Zeros(n - 1)

Whitespace == {" ", "\t", "\n", "\r"}

\* str.rstrip()
RECURSIVE rstrip(_)
rstrip(s) ==
    IF Len(s) > 0 /\ s[Len(s)] \in Whitespace
    THEN rstrip(SubSeq(s, 1, Len(s) - 1))
    ELSE s

----------------------------------------------------------------------------
(* _si_prefixes *)

\* the entries under 0
_si_prefixes_negative ==
    (-60 :> Str(<<"y", "y">>)) @@ (-57 :> Str(<<"y", "r">>)) @@
    (-54 :> Str(<<"y", "y">>)) @@ (-51 :> Str(<<"y", "z">>)) @@
    (-48 :> Str(<<"y", "a">>)) @@ (-45 :> Str(<<"y", "f">>)) @@
    (-42 :> Str(<<"y", "p">>)) @@ (-39 :> Str(<<"y", "n">>)) @@
    (-36 :> Str(<<"y", "μ">>)) @@ (-33 :> Str(<<"y", "m">>)) @@
    (-30 :> Str(<<"y">>)) @@ (-27 :> Str(<<"r">>)) @@
    (-24 :> Str(<<"y">>)) @@ (-21 :> Str(<<"z">>)) @@
    (-18 :> Str(<<"a">>)) @@ (-15 :> Str(<<"f">>)) @@
    (-12 :> Str(<<"p">>)) @@ (-9 :> Str(<<"n">>)) @@
    (-6 :> Str(<<"μ">>)) @@ (-3 :> Str(<<"m">>))

\* the entries over 0
_si_prefixes_positive ==
    (3 :> Str(<<"k">>)) @@ (6 :> Str(<<"M">>)) @@
    (9 :> Str(<<"G">>)) @@ (12 :> Str(<<"T">>)) @@
    (15 :> Str(<<"P">>)) @@ (18 :> Str(<<"E">>)) @@
    (21 :> Str(<<"Z">>)) @@ (24 :> Str(<<"Y">>)) @@
    (27 :> Str(<<"R">>)) @@ (30 :> Str(<<"Q">>)) @@
    (33 :> Str(<<"Q", "k">>)) @@ (36 :> Str(<<"Q", "M">>)) @@
    (39 :> Str(<<"Q", "G">>)) @@ (42 :> Str(<<"Q", "T">>)) @@
    (45 :> Str(<<"Q", "P">>)) @@ (48 :> Str(<<"Q", "E">>)) @@
    (51 :> Str(<<"Q", "Z">>)) @@ (54 :> Str(<<"Q", "Y">>)) @@
    (57 :> Str(<<"Q", "R">>)) @@ (60 :> Str(<<"Q", "Q">>))

\* the table with 'E' typed at 21 as well as at 18
_si_prefixes_typo ==
    (21 :> Str(<<"E">>)) @@ _si_prefixes_negative @@ (0 :> NoneV) @@ _si_prefixes_positive

_si_prefixes == _si_prefixes_negative @@ (0 :> NoneV) @@ _si_prefixes_positive

\* dict.get(key): None for a key the dict does not hold
dict_get(d, key) == IF key \in DOMAIN d THEN d[key] ELSE NoneV

----------------------------------------------------------------------------
(* _get_engineering_exponent *)

\* floor(log10(coef * 10^pow))
FloorLog10(n) == (NumDigits(n.coef) - 1) + n.pow

IsPowerOfTen(n) == n.coef = Pow10(NumDigits(n.coef) - 1)

\* math.floor(log10(abs(number))) where the code has int(...)
floor_log10_abs(n) == FloorLog10(n)

\* int(log10(abs(number))): int() drops the fraction, rounding toward zero
int_log10_abs(n) ==
    LET f == FloorLog10(n)
    IN  IF IsPowerOfTen(n) \/ f >= 0 THEN f ELSE f + 1

\* while exponent % 3 != 0: exponent -= 1
RECURSIVE next_smallest_mult_of_3(_)
next_smallest_mult_of_3(e) ==
    IF e % 3 # 0 THEN next_smallest_mult_of_3(e - 1) ELSE e

_get_engineering_exponent(n) ==
    IF n.kind = "nan"
    THEN Raise("ValueError", <<"cannot", "convert", "float", "NaN", "to", "integer">>)
    ELSE IF n.kind = "inf"
    THEN Raise("OverflowError",
               <<"cannot", "convert", "float", "infinity", "to", "integer">>)
    ELSE IF n.coef = 0
    THEN Return(0)
    ELSE LET e0 == int_log10_abs(n)
             e1 == IF e0 < 0 THEN e0 - 1 ELSE e0
         IN  Return(next_smallest_mult_of_3(e1))

----------------------------------------------------------------------------
(* _get_exp_str *)

_get_exp_str(e) ==
    IF e > 0 THEN <<"E">> \o IntStr(e)
    ELSE IF e < 0 THEN <<"E">> \o IntStr(e)
    ELSE <<>>

----------------------------------------------------------------------------
(* The mantissa: format(round(number / 10 ** exponent, p), f'.{p}f') *)

\* How round() settles a decimal tie.  The double nearest to a decimal tie
\* (2.675, say) lies on one side of it or the other, so a tie goes either way;
\* which way is fixed by the float arithmetic, not by the caller.
Ties == {"down", "up"}

\* 10 ** exponent is the float 0.0 for an exponent under -323
pow10_underflows(e) == e < 0 - 323

\* round(number / 10 ** exponent, p), p >= 0, in units of 10^-p (a natural
\* number: the sign is kept apart, as the float keeps it even on -0.0)
round_quotient(n, e, p, tie) ==
    LET d == n.pow - e + p
    IN  IF d >= 0
        THEN n.coef * Pow10(d)
        ELSE LET D == Pow10(-d)
                 q == n.coef \div D
                 r == n.coef % D
             IN  IF 2 * r < D THEN q
                 ELSE IF 2 * r > D THEN q + 1
                 ELSE IF tie = "up" THEN q + 1 ELSE q

\* the fraction's leading zeros lost: 1.005 printed as 1.5
format_f_unpadded(sign, q, p) ==
    (IF sign < 0 THEN <<"-">> ELSE <<>>) \o NatStr(q \div Pow10(p)) \o
    (IF p > 0 THEN <<".">> \o NatStr(q % Pow10(p)) ELSE <<>>)

\* format(x, f'.{p}f') of the float sign * q * 10^-p
format_f(sign, q, p) ==
    LET whole == NatStr(q \div Pow10(p))
        frac == NatStr(q % Pow10(p))
    IN  (IF sign < 0 THEN <<"-">> ELSE <<>>) \o whole \o
        (IF p > 0 THEN <<".">> \o Zeros(p - Len(frac)) \o frac ELSE <<>>)

\* what a call leaves behind: its locals and what it returned or raised
Frame(e, m, r) == [exponent |-> e, mantissa |-> m, result |-> r]

\* the statement  mantissa = str(format(round(number / 10 ** exponent, p), f'.{p}f'))
\* either binds mantissa or raises
mantissa_stmt(n, e, p, tie) ==
    IF pow10_underflows(e)
    THEN Raise("ZeroDivisionError", <<"float", "division", "by", "zero">>)
    ELSE IF p < 0
    THEN Raise("ValueError", <<"Format", "specifier", "missing", "precision">>)
    ELSE Return(format_f(n.sign, round_quotient(n, e, p, tie), p))

----------------------------------------------------------------------------
(* si_form *)

si_form_default_round_to_decimal_places == 3

si_form(n, u, rdp, tie) ==
    LET p == IF rdp = Omitted THEN PyInt(si_form_default_round_to_decimal_places) ELSE rdp
    IN
    IF ~isinstance(n, {"int", "float"})
    THEN Frame(Unbound, Unbound,
               Raise("TypeError", <<"engineering_form()", "input", "number", "only",
                                    "accepts", "numbers", "(int", "or", "float)">>))
    ELSE IF ~isinstance(u, {"str"})
    THEN Frame(Unbound, Unbound,
               Raise("TypeError", <<"engineering_form()", "input", "unit", "only",
                                    "accepts", "strings">>))
    ELSE IF ~isinstance(p, {"int"})
    THEN Frame(Unbound, Unbound,
               Raise("TypeError", <<"engineering_form()", "input",
                                    "round_to_decimal_places", "only", "accepts",
                                    "integers">>))
    ELSE LET ex == _get_engineering_exponent(n)
         IN  IF ex.kind = "raise" THEN Frame(Unbound, Unbound, ex)
             ELSE LET e == ex.value
                      prefix == dict_get(_si_prefixes, e)
                      m == mantissa_stmt(n, e, p.val, tie)
                  IN  IF m.kind = "raise" THEN Frame(Bound(e), Unbound, m)
                      ELSE LET outstr ==
                                   IF prefix # NoneV
                                   THEN m.value \o <<" ">> \o prefix.chars \o u.chars
                                   ELSE m.value \o <<" ">> \o u.chars
                           IN  Frame(Bound(e), Bound(m.value), Return(rstrip(outstr)))

----------------------------------------------------------------------------
(* engineering_form *)

engineering_form_default_round_to_decimal_places == 3

engineering_form(n, u, rdp, tie) ==
    LET p == IF rdp = Omitted
             THEN PyInt(engineering_form_default_round_to_decimal_places) ELSE rdp
    IN
    IF ~isinstance(n, {"int", "float"})
    THEN Frame(Unbound, Unbound,
               Raise("TypeError", <<"engineering_form()", "input", "number", "only",
                                    "accepts", "numbers", "(int", "or", "float)">>))
    ELSE IF ~isinstance(u, {"str"})
    THEN Frame(Unbound, Unbound,
               Raise("TypeError", <<"engineering_form()", "input", "unit", "only",
                                    "accepts", "strings">>))
    ELSE IF ~isinstance(p, {"int"})
    THEN Frame(Unbound, Unbound,
               Raise("TypeError", <<"engineering_form()", "input",
                                    "round_to_decimal_places", "only", "accepts",
                                    "integers">>))
    ELSE LET ex == _get_engineering_exponent(n)
         IN  IF ex.kind = "raise" THEN Frame(Unbound, Unbound, ex)
             ELSE LET e == ex.value
                      m == mantissa_stmt(n, e, p.val, tie)
                  IN  IF m.kind = "raise" THEN Frame(Bound(e), Unbound, m)
                      ELSE Frame(Bound(e), Bound(m.value),
                                 Return(IF u.chars # <<>>
                                        THEN m.value \o _get_exp_str(e) \o <<" ">> \o u.chars
                                        ELSE m.value \o _get_exp_str(e)))

----------------------------------------------------------------------------
(* sif, engf *)

sif_default_prec == 3

\* prec not handed on: si_form's own default is used whatever the caller gave
sif_drops_prec(num, uni, prec, tie) ==
    IF ~isinstance(num, {"int", "float"})
    THEN Frame(Unbound, Unbound,
               Raise("TypeError", <<"sif()", "only", "accepts", "numbers">>))
    ELSE si_form(num, uni, Omitted, tie)

sif(num, uni, prec, tie) ==
    IF ~isinstance(num, {"int", "float"})
    THEN Frame(Unbound, Unbound,
               Raise("TypeError", <<"sif()", "only", "accepts", "numbers">>))
    ELSE si_form(num, uni, IF prec = Omitted THEN PyInt(sif_default_prec) ELSE prec, tie)

engf_default_prec == 3

engf(num, uni, prec, tie) ==
    IF ~isinstance(num, {"int", "float"})
    THEN Frame(Unbound, Unbound,
               Raise("TypeError", <<"engf()", "only", "accepts", "numbers">>))
    ELSE engineering_form(num, uni,
                          IF prec = Omitted THEN PyInt(engf_default_prec) ELSE prec, tie)

----------------------------------------------------------------------------
(* The arguments tried *)

\* 1.049 has a zero right after the point, 2.675 is a decimal tie at two
\* places, 999.5 rounds up to 1000
Coefs == {1, 5, 99, 1049, 2675, 9995}

FiniteFloats ==
    {Num("float", s, c, k) : s \in {1, -1}, c \in Coefs, k \in (0 - MaxPow) .. MaxPow}

\* 1000 and 1000000000000000 among them
Ints == {Num("int", s, c, k) : s \in {1, -1}, c \in Coefs, k \in {0, 3, 15}}

\* 0, 0.0, the smallest subnormal double 5e-324, and 1e308
EdgeNumbers ==
    {Num("int", 1, 0, 0), Num("float", 1, 0, 0),
     Num("float", 1, 5, 0 - 324), Num("float", 1, 1, 308)}

NonFinites == {NonFinite("nan", 1), NonFinite("inf", 1), NonFinite("inf", -1)}

Numbers == FiniteFloats \cup Ints \cup EdgeNumbers \cup NonFinites

\* 'abc' and None where a number is expected
NotNumbers == {Str(<<"a", "b", "c">>), NoneV}

\* '', 'V', 'Ω', 'V ' (rstrip has something to strip), and the int 5
Units == {Str(<<>>), Str(<<"V">>), Str(<<"Ω">>), Str(<<"V", " ">>), PyInt(5)}

\* left out, the ints -1 .. MaxPrec, and the float 1.5
Precisions == {Omitted} \cup {PyInt(p) : p \in (0 - 1) .. MaxPrec} \cup {PyFloat(15)}

----------------------------------------------------------------------------
(* The state machine: the arguments are chosen, then one function is called *)

Init ==
    /\ call = "none"
    /\ number \in Numbers \cup NotNumbers
    /\ unit \in Units
    /\ round_to_decimal_places \in Precisions
    /\ float_tie \in Ties
    /\ exponent = Unbound
    /\ mantissa = Unbound
    /\ result = NoneV

Leaves(name, frame) ==
    /\ call' = name
    /\ exponent' = frame.exponent
    /\ mantissa' = frame.mantissa
    /\ result' = frame.result
    /\ UNCHANGED <<number, unit, round_to_decimal_places, float_tie>>

si_form_call ==
    /\ call = "none"
    /\ Leaves("si_form", si_form(number, unit, round_to_decimal_places, float_tie))

engineering_form_call ==
    /\ call = "none"
    /\ Leaves("engineering_form",
              engineering_form(number, unit, round_to_decimal_places, float_tie))

sif_call ==
    /\ call = "none"
    /\ Leaves("sif", sif(number, unit, round_to_decimal_places, float_tie))

engf_call ==
    /\ call = "none"
    /\ Leaves("engf", engf(number, unit, round_to_decimal_places, float_tie))

\* _get_engineering_exponent(number), as si_form and engineering_form call it:
\* on a number that passed their isinstance checks
_get_engineering_exponent_call ==
    /\ call = "none"
    /\ isinstance(number, {"int", "float"})
    /\ LET ex == _get_engineering_exponent(number)
       IN  Leaves("_get_engineering_exponent",
                  Frame(IF ex.kind = "return" THEN Bound(ex.value) ELSE Unbound,
                        Unbound, ex))

Next ==
    \/ si_form_call
    \/ engineering_form_call
    \/ sif_call
    \/ engf_call
    \/ _get_engineering_exponent_call

Spec == Init /\ [][Next]_vars

----------------------------------------------------------------------------
(* Vocabulary of the properties *)

NumberTypes == {"int", "float"}

\* number, unit and round_to_decimal_places as the contract wants them: a
\* number, a text, and a non-negative integer (3 when left out)
GivenPrecision ==
    IF round_to_decimal_places = Omitted THEN PyInt(3) ELSE round_to_decimal_places

ValidArgs ==
    /\ isinstance(number, NumberTypes)
    /\ isinstance(unit, {"str"})
    /\ isinstance(GivenPrecision, {"int"})
    /\ GivenPrecision.val >= 0

FiniteNumber == isinstance(number, NumberTypes) /\ number.kind = "finite"

Abs(a) == IF a < 0 THEN 0 - a ELSE a

\* |n| < 10^k, |n| = 10^k, |n| <= 10^k, for a finite n other than 0
MagBelow(n, k) ==
    LET d == k - n.pow
    IN  IF d <= 0 THEN FALSE ELSE IF d > 9 THEN TRUE ELSE n.coef < Pow10(d)
MagIs(n, k) ==
    LET d == k - n.pow
    IN  IF d < 0 \/ d > 9 THEN FALSE ELSE n.coef = Pow10(d)
MagAtMost(n, k) == MagBelow(n, k) \/ MagIs(n, k)

Formatters == {"si_form", "engineering_form"}
Aliases == {"sif", "engf"}

\* the keys the table is said to have, and those said to hold duplicates
PrefixKeys == {k \in (0 - 60) .. 60 : k % 3 = 0}
DuplicateKeys == {0 - 60, 0 - 54, 0 - 24}

\* C1: for every finite number other than 0 the selected exponent is a
\* multiple of 3 and the unrounded mantissa |number / 10^exponent| is at least
\* 0.1 and strictly below 1000.
C1_ExponentRange ==
    (exponent.bound /\ FiniteNumber /\ number.coef # 0) =>
        /\ exponent.val % 3 = 0
        /\ ~MagBelow(number, exponent.val - 1)
        /\ MagBelow(number, exponent.val + 3)

\* C2: for every exponent e that is a nonzero multiple of 3 in -60..60,
\* si_form(10^e, u) with the precision left at its default returns "1.000 ",
\* then the table's prefix for e, then the unit u.
C2_PowersOfTenRender ==
    (/\ call = "si_form"
     /\ FiniteNumber
     /\ number.sign = 1 /\ number.coef = 1
     /\ number.pow \in PrefixKeys \ {0}
     /\ isinstance(unit, {"str"}) /\ rstrip(unit.chars) = unit.chars
     /\ round_to_decimal_places = Omitted) =>
        result = Return(<<"1", ".", "0", "0", "0", " ">>
                        \o _si_prefixes[number.pow].chars \o unit.chars)

\* the exponent string as specified: E+<exponent>, E-<exponent>, or nothing for 0
SpecifiedExpStr(e) ==
    IF e > 0 THEN <<"E", "+">> \o NatStr(e)
    ELSE IF e < 0 THEN <<"E", "-">> \o NatStr(0 - e)
    ELSE <<>>

\* C3: what engineering_form returns is the mantissa, then "E" and the
\* exponent with an explicit "+" when it is positive and its own "-" when it
\* is negative (nothing when it is 0), then a space and the unit if there is
\* a unit.
C3_ExponentString ==
    (call = "engineering_form" /\ result.kind = "return") =>
        result.value = mantissa.val \o SpecifiedExpStr(exponent.val)
                       \o (IF unit.chars # <<>> THEN <<" ">> \o unit.chars ELSE <<>>)

\* C4: in si_form, a finite number other than 0 whose selected exponent is
\* not 0 renders as "<mantissa> <prefix><unit>" with a non-empty prefix; the
\* prefix-less "<mantissa> <unit>" (right-stripped) appears only for exponent 0.
C4_OnlyZeroHasNoPrefix ==
    (call = "si_form" /\ result.kind = "return" /\ number.coef # 0) =>
        LET e == exponent.val
            prefix == dict_get(_si_prefixes, e)
        IN  IF e # 0
            THEN /\ prefix # NoneV
                 /\ prefix.chars # <<>>
                 /\ result.value =
                        rstrip(mantissa.val \o <<" ">> \o prefix.chars \o unit.chars)
            ELSE result.value = rstrip(mantissa.val \o <<" ">> \o unit.chars)

\* C5: si_form and engineering_form reject a call whose number is no number,
\* whose unit is no text or whose round_to_decimal_places is no non-negative
\* integer with a TypeError raised before exponent or mantissa is computed;
\* every other call with a finite number returns a string.  (Calls with NaN or
\* an infinity are left aside.)
C5_ValidationFirst ==
    (call \in Formatters /\ (isinstance(number, NumberTypes) => FiniteNumber)) =>
        IF ~ValidArgs
        THEN /\ result.kind = "raise"
             /\ result.exc = "TypeError"
             /\ exponent = Unbound
             /\ mantissa = Unbound
        ELSE result.kind = "return"

\* the function whose check rejects the call, and the parameter it rejects
Rejecter ==
    IF call \in Aliases /\ ~isinstance(number, NumberTypes) THEN call
    ELSE IF call \in {"si_form", "sif"} THEN "si_form"
    ELSE "engineering_form"
OffendingParameter ==
    IF ~isinstance(number, NumberTypes)
    THEN (IF call \in Aliases THEN "num" ELSE "number")
    ELSE IF ~isinstance(unit, {"str"}) THEN "unit"
    ELSE "round_to_decimal_places"
Words(msg) == {msg[i] : i \in 1 .. Len(msg)}

\* C6: a validation error raised by si_form, engineering_form, sif or engf
\* names the function that rejected the call and the offending parameter.
C6_ErrorNamesFunctionAndParameter ==
    (call \in Formatters \cup Aliases /\ result.kind = "raise"
        /\ result.exc = "TypeError") =>
        /\ (Rejecter \o "()") \in Words(result.msg)
        /\ OffendingParameter \in Words(result.msg)

\* C7: for valid arguments sif gives exactly what si_form gives, and engf
\* exactly what engineering_form gives, for the same number, unit and
\* precision; with the precision left out the aliases use 3.
C7_AliasesAgree ==
    (call \in Aliases /\ ValidArgs) =>
        IF call = "sif"
        THEN result = si_form(number, unit, GivenPrecision, float_tie).result
        ELSE result = engineering_form(number, unit, GivenPrecision, float_tie).result

C7_Witness ==
    /\ call = "sif"
    /\ round_to_decimal_places = Omitted
    /\ number = Num("int", 1, 1, 3)
    /\ result = Return(<<"1", ".", "0", "0", "0", " ", "k", "V">>)

\* the number of 10^-p units a printed mantissa denotes, read back from its
\* text: the digits before the point, and p digits after it
RECURSIVE DigitsValue(_)
DigitsValue(s) ==
    IF s = <<>> THEN 0
    ELSE 10 * DigitsValue(SubSeq(s, 1, Len(s) - 1))
         + (CHOOSE d \in 0 .. 9 : DigitChars[d + 1] = s[Len(s)])

ParseFixed(s, p) ==
    LET neg == Len(s) > 0 /\ s[1] = "-"
        body == IF neg THEN SubSeq(s, 2, Len(s)) ELSE s
        dots == {i \in 1 .. Len(body) : body[i] = "."}
        dot == IF dots = {} THEN Len(body) + 1 ELSE CHOOSE i \in dots : TRUE
        whole == SubSeq(body, 1, dot - 1)
        frac == SubSeq(body, dot + 1, Len(body))
        units == DigitsValue(whole) * Pow10(p) + DigitsValue(frac) * Pow10(p - Len(frac))
    IN  IF neg THEN 0 - units ELSE units

PrefixChars(k) == IF _si_prefixes[k] = NoneV THEN <<>> ELSE _si_prefixes[k].chars

\* the table itself, as C9 describes it
TableAsDescribed ==
    /\ DOMAIN _si_prefixes = PrefixKeys
    /\ \A k \in PrefixKeys : (_si_prefixes[k] = NoneV) <=> (k = 0)
    /\ \A j, k \in PrefixKeys \ DuplicateKeys :
           (j # k) => (_si_prefixes[j] # _si_prefixes[k])

\* C9: the table's keys are the multiples of 3 from -60 to 60, exponent 0 is
\* its only key without a prefix, and apart from -60, -54 and -24 no two keys
\* hold the same prefix, so that what si_form returns for one such exponent is
\* not what it would return with another one's prefix.
C9_PrefixTable ==
    /\ TableAsDescribed
    /\ (/\ call = "si_form"
        /\ result.kind = "return"
        /\ exponent.val \in PrefixKeys \ DuplicateKeys) =>
           \A k \in PrefixKeys \ DuplicateKeys :
               (k # exponent.val) =>
                   result.value #
                       rstrip(mantissa.val \o <<" ">> \o PrefixChars(k) \o unit.chars)

\* a number rendered with 'y' at exponent -30, the prefix -24 holds too
C9_Witness ==
    /\ call = "si_form"
    /\ exponent = Bound(0 - 30)
    /\ result = Return(<<"5", ".", "0", "0", " ", "y", "V">>)

\* floor(log10(|n|)) and log10(|n|) cut toward zero, for a finite n other than
\* 0, from the powers of ten that enclose |n|
FloorOfLog10(n) ==
    CHOOSE t \in (n.pow - 1) .. (n.pow + 5) : ~MagBelow(n, t) /\ MagBelow(n, t + 1)
CeilingOfLog10(n) ==
    CHOOSE t \in (n.pow - 1) .. (n.pow + 5) : MagAtMost(n, t) /\ ~MagAtMost(n, t - 1)
TruncatedLog10(n) ==
    IF MagBelow(n, 0) THEN CeilingOfLog10(n) ELSE FloorOfLog10(n)

\* the reference algorithm from a start value: one less if it is negative,
\* then down to the next multiple of 3
ReferenceFrom(start) ==
    LET biased == IF start < 0 THEN start - 1 ELSE start
    IN  3 * (biased \div 3)

\* C10 as stated: the exponent is 0 for 0, and otherwise the reference
\* algorithm started from floor(log10(|number|)).
C10_FloorReference ==
    (exponent.bound /\ FiniteNumber) =>
        exponent.val = IF number.coef = 0 THEN 0
                       ELSE ReferenceFrom(FloorOfLog10(number))

\* C10 amended: the exponent is 0 for 0, and otherwise the reference algorithm
\* started from log10(|number|) cut toward zero, which is what int() does,
\* and not from its floor.
C10_TruncReference ==
    (exponent.bound /\ FiniteNumber) =>
        exponent.val = IF number.coef = 0 THEN 0
                       ELSE ReferenceFrom(TruncatedLog10(number))

\* 0.5: the floor of its log10 is -1, the cut is 0, and the exponent is 0
C10_Witness ==
    /\ call = "_get_engineering_exponent"
    /\ number = Num("float", 1, 5, 0 - 1)
    /\ exponent = Bound(0)

====
